---- MODULE Spec2Model ----
(***************************************************************************)
(* Model of the scraping controller of happyfestivegiftsApi                *)
(* (src/controllers/productsController.js): input validation, the result   *)
(* cache, the retrying executor safeScrape, the two source extractors,     *)
(* the relevance score and the scrape request handler.                     *)
(*                                                                         *)
(* JavaScript strings are sequences of one-character strings.  JavaScript  *)
(* numbers are records: a finite number carries its value in thousandths   *)
(* (v = 1299000 is 1299), NaN and Infinity are values of their own.        *)
(***************************************************************************)
EXTENDS Integers, Sequences, FiniteSets, TLC

----------------------------------------------------------------------------
(* Characters and strings *)

UpperChars == <<"A","B","C","D","E","F","G","H","I","J","K","L","M",
                "N","O","P","Q","R","S","T","U","V","W","X","Y","Z">>

LowerChars == <<"a","b","c","d","e","f","g","h","i","j","k","l","m",
                "n","o","p","q","r","s","t","u","v","w","x","y","z">>

DigitChars == <<"0","1","2","3","4","5","6","7","8","9">>

Range(f) == {f[i] : i \in DOMAIN f}

IsDigit(c) == c \in Range(DigitChars)

\* \s of a JavaScript regular expression, and the characters trim() removes
SpaceChars == {" ", "\t", "\n"}

IsSpace(c) == c \in SpaceChars

\* \w of a JavaScript regular expression
IsWord(c) == c \in Range(UpperChars) \cup Range(LowerChars) \cup Range(DigitChars) \cup {"_"}

DigitVal(c) == (CHOOSE i \in 1..10 : DigitChars[i] = c) - 1

ToLowerChar(c) ==
    IF c \in Range(UpperChars)
    THEN LowerChars[CHOOSE i \in 1..26 : UpperChars[i] = c]
    ELSE c

\* String.prototype.toLowerCase
ToLowerCase(s) == [i \in 1..Len(s) |-> ToLowerChar(s[i])]

\* The part of s from its first character not in the set skip
DropWhile(s, skip) ==
    LET stay == {i \in 1..Len(s) : s[i] \notin skip}
    IN IF stay = {} THEN <<>>
       ELSE SubSeq(s, CHOOSE i \in stay : \A j \in stay : i <= j, Len(s))

\* The part of s up to its last character not in the set skip
DropTrailing(s, skip) ==
    LET stay == {i \in 1..Len(s) : s[i] \notin skip}
    IN IF stay = {} THEN <<>>
       ELSE SubSeq(s, 1, CHOOSE i \in stay : \A j \in stay : i >= j)

TrimStart(s) == DropWhile(s, SpaceChars)

TrimEnd(s) == DropTrailing(s, SpaceChars)

\* String.prototype.trim
Trim(s) == TrimEnd(TrimStart(s))

\* String.prototype.substring(0, n)
Substring0(s, n) == IF Len(s) <= n THEN s ELSE SubSeq(s, 1, n)

\* String.prototype.includes
Includes(s, t) ==
    \E i \in 0..(Len(s) - Len(t)) : SubSeq(s, i + 1, i + Len(t)) = t

\* String.prototype.split(" "): the pieces between single spaces, empty
\* pieces included
RECURSIVE SplitSpace(_)
SplitSpace(s) ==
    IF \A i \in 1..Len(s) : s[i] # " " THEN <<s>>
    ELSE LET k == CHOOSE i \in 1..Len(s) :
                      s[i] = " " /\ \A j \in 1..(i - 1) : s[j] # " "
         IN <<SubSeq(s, 1, k - 1)>> \o SplitSpace(SubSeq(s, k + 1, Len(s)))

\* n copies of the character c
Repeat(c, n) == [i \in 1..n |-> c]

----------------------------------------------------------------------------
(* Numbers *)

\* Finite values are kept in thousandths
Milli == 10 * 10 * 10

\* A decimal numeral with more integer digits than this is beyond the
\* largest double (1.79e308) and parses to Infinity
MaxFiniteDigits == 309

Num(v) == [k |-> "num", v |-> v]

NaN == [k |-> "nan", v |-> 0]

\* Infinity (sign 1) and -Infinity (sign -1)
Inf(sign) == [k |-> "inf", v |-> sign]

IsNaN(n) == n.k = "nan"

IsFinite(n) == n.k = "num"

\* a < b of two numbers (false when either is NaN)
NumLT(a, b) ==
    CASE a.k = "nan" \/ b.k = "nan" -> FALSE
      [] a.k = "num" /\ b.k = "num" -> a.v < b.v
      [] a.k = "inf" /\ b.k = "inf" -> a.v < b.v
      [] a.k = "inf" -> a.v < 0
      [] OTHER -> b.v > 0

NumGT(a, b) == NumLT(b, a)

\* a - b
NumSub(a, b) ==
    CASE a.k = "nan" \/ b.k = "nan" -> NaN
      [] a.k = "num" /\ b.k = "num" -> Num(a.v - b.v)
      [] a.k = "inf" /\ b.k = "inf" -> IF a.v = b.v THEN NaN ELSE a
      [] a.k = "inf" -> a
      [] OTHER -> Inf(-b.v)

\* Math.abs
NumAbs(n) ==
    CASE n.k = "num" -> Num(IF n.v < 0 THEN -n.v ELSE n.v)
      [] n.k = "inf" -> Inf(1)
      [] OTHER -> NaN

\* The digits s starts with
LeadingDigits(s) ==
    LET other == {i \in 1..Len(s) : ~IsDigit(s[i])}
    IN IF other = {} THEN s
       ELSE SubSeq(s, 1, (CHOOSE i \in other : \A j \in other : i <= j) - 1)

StripZeros(ds) == DropWhile(ds, {"0"})

RECURSIVE IntValue(_)
IntValue(ds) ==
    IF ds = <<>> THEN 0
    ELSE IntValue(SubSeq(ds, 1, Len(ds) - 1)) * 10 + DigitVal(ds[Len(ds)])

\* The fraction digits as thousandths (digits after the third are dropped:
\* the inputs of the model carry at most three)
FracMilli(fs) ==
    LET d(i) == IF i <= Len(fs) THEN DigitVal(fs[i]) ELSE 0
    IN d(1) * 100 + d(2) * 10 + d(3)

\* The value of the numeral sign ints . fracs
MkNumber(sign, ints, fracs) ==
    IF Len(StripZeros(ints)) > MaxFiniteDigits THEN Inf(sign)
    ELSE Num(sign * (IntValue(StripZeros(ints)) * Milli + FracMilli(fracs)))

\* The numeral at the start of s: [sign, ints, fracs, rest]
Numeral(s) ==
    LET neg   == s # <<>> /\ Head(s) = "-"
        s1    == IF s # <<>> /\ Head(s) \in {"-", "+"} THEN Tail(s) ELSE s
        ints  == LeadingDigits(s1)
        s2    == SubSeq(s1, Len(ints) + 1, Len(s1))
        dot   == s2 # <<>> /\ Head(s2) = "."
        fracs == IF dot THEN LeadingDigits(Tail(s2)) ELSE <<>>
        \* "12." is a numeral; a lone "." is not
        used  == IF dot /\ (ints # <<>> \/ fracs # <<>>) THEN 1 + Len(fracs) ELSE 0
    IN [sign  |-> IF neg THEN -1 ELSE 1,
        ints  |-> ints,
        fracs |-> IF used > 0 THEN fracs ELSE <<>>,
        some  |-> ints # <<>> \/ (dot /\ fracs # <<>>),
        rest  |-> SubSeq(s2, used + 1, Len(s2))]

\* parseFloat(s): the longest numeral prefix after leading whitespace.
\* (Exponents and the literal Infinity are outside the model's alphabet.)
ParseFloat(s) ==
    LET n == Numeral(TrimStart(s))
    IN IF n.some THEN MkNumber(n.sign, n.ints, n.fracs) ELSE NaN

\* Number(s), the coercion isNaN and the comparisons apply to a string:
\* the whole trimmed string must be a numeral; the empty string is 0
StrToNumber(s) ==
    LET t == Trim(s)
        n == Numeral(t)
    IN IF t = <<>> THEN Num(0)
       ELSE IF n.some /\ n.rest = <<>> THEN MkNumber(n.sign, n.ints, n.fracs)
       ELSE NaN

RECURSIVE IntToStr(_)
IntToStr(n) ==
    IF n < 10 THEN <<DigitChars[n + 1]>>
    ELSE IntToStr(n \div 10) \o <<DigitChars[(n % 10) + 1]>>

\* Number.prototype.toFixed(2) of a number that is not negative
ToFixed2(n) ==
    CASE n.k = "nan" -> <<"N","a","N">>
      [] n.k = "inf" -> <<"I","n","f","i","n","i","t","y">>
      [] OTHER ->
           LET h == (n.v + 5) \div 10
           IN IntToStr(h \div 100) \o <<".">> \o
              <<DigitChars[((h \div 10) % 10) + 1], DigitChars[(h % 10) + 1]>>

----------------------------------------------------------------------------
(* Request parameters: validation and the cache key *)

\* A value of a request field: a string, or (from a JSON body) a number
JsString(s) == [type |-> "string", str |-> s, num |-> 0]

JsNumber(n) == [type |-> "number", str |-> <<>>, num |-> n]

Truthy(x) == IF x.type = "string" THEN x.str # <<>> ELSE x.num # 0

MaxSearchLength == 100

MaxHighPrice == 1000000

MaxCategoryLength == 50

\* The characters /[^\w\s-]/g leaves in the search term
IsSafeChar(c) == IsWord(c) \/ IsSpace(c) \/ c = "-"

ValidationError(msg) ==
    [ok |-> FALSE, error |-> msg, sanitizedSearch |-> <<>>,
     sanitizedHighPrice |-> <<>>, sanitizedCategory |-> <<>>]

\* validateScrapingParams(search, highprice, category): search is any value,
\* highprice and category are strings
validateScrapingParams(search, highprice, category) ==
    IF ~Truthy(search) \/ search.type # "string" \/ Len(Trim(search.str)) = 0
    THEN ValidationError("Search query is required and must be a non-empty string")
    ELSE IF Len(search.str) > MaxSearchLength
    THEN ValidationError("Search query too long (max 100 characters)")
    ELSE IF highprice # <<>> /\ ( \/ IsNaN(StrToNumber(highprice))
                                  \/ NumLT(StrToNumber(highprice), Num(0))
                                  \/ NumGT(StrToNumber(highprice), Num(MaxHighPrice * Milli)) )
    THEN ValidationError("High price must be a positive number less than 1,000,000")
    ELSE [ok |-> TRUE, error |-> "",
          sanitizedSearch |->
              SelectSeq(Substring0(Trim(search.str), MaxSearchLength), IsSafeChar),
          sanitizedHighPrice |->
              IF highprice # <<>> THEN ToFixed2(NumAbs(ParseFloat(highprice))) ELSE <<>>,
          sanitizedCategory |->
              IF category # <<>> THEN Substring0(Trim(category), MaxCategoryLength) ELSE <<>>]

AmazonName == <<"a","m","a","z","o","n">>

MyntraName == <<"m","y","n","t","r","a">>

\* generateCacheKey(search, highprice, category, source): the raw parameters
\* joined with ":", the search term lower-cased and trimmed
generateCacheKey(search, highprice, category, source) ==
    source \o <<":">> \o Trim(ToLowerCase(search)) \o <<":">> \o highprice
           \o <<":">> \o category

----------------------------------------------------------------------------
(* Relevance score *)

\* Scores are kept in units of 1/50000, so that |price - 1000| / 50 of a
\* price in thousandths is an integer
ScoreUnit == 50 * Milli

\* The number of elements of the sequence terms that occur in titleLower
RECURSIVE CountIncluded(_, _)
CountIncluded(terms, titleLower) ==
    IF terms = <<>> THEN 0
    ELSE (IF Includes(titleLower, Head(terms)) THEN 1 ELSE 0)
         + CountIncluded(Tail(terms), titleLower)

\* calculateRelevanceScore(title, search, price)
calculateRelevanceScore(title, search, price) ==
    LET searchTerms == SplitSpace(ToLowerCase(search))
        titleLower  == ToLowerCase(title)
        termScore   == 10 * CountIncluded(searchTerms, titleLower)
        exactScore  == IF Includes(titleLower, ToLowerCase(search)) THEN 20 ELSE 0
        dist        == IF price.v < 1000 * Milli THEN 1000 * Milli - price.v
                       ELSE price.v - 1000 * Milli
        \* Math.max(0, 50 - Math.abs(price - 1000) / 50)
        priceScore  == IF 50 * ScoreUnit - dist > 0 THEN 50 * ScoreUnit - dist ELSE 0
    IN CASE price.k = "nan" -> NaN
         [] price.k = "inf" -> Num((termScore + exactScore) * ScoreUnit)
         [] OTHER -> Num((termScore + exactScore) * ScoreUnit + priceScore)

----------------------------------------------------------------------------
(* Products, ordering and the source extractors *)

\* A scraped product.  The fields no operation reads again (rating,
\* offprice, discount, href) are left out.
Product(image, title, price, source, score) ==
    [image |-> image, title |-> title, price |-> price, source |-> source,
     score |-> score]

\* x || 0 of a number
OrZero(n) == IF n.k = "nan" \/ (n.k = "num" /\ n.v = 0) THEN Num(0) ELSE n

\* d1 || d2 of two numbers
OrElse(d1, d2) == IF d1.k = "nan" \/ (d1.k = "num" /\ d1.v = 0) THEN d2 ELSE d1

\* (a, b) => b.score - a.score || a.price - b.price
compareExtracted(a, b) ==
    OrElse(NumSub(b.score, a.score), NumSub(a.price, b.price))

\* Faulty variant: the merged list ordered by price alone
compareMerged_priceOnly(a, b) == NumSub(a.price, b.price)

\* (a, b) => (b.score || 0) - (a.score || 0) || a.price - b.price
compareMerged(a, b) ==
    OrElse(NumSub(OrZero(b.score), OrZero(a.score)), NumSub(a.price, b.price))

\* The comparator of a sort: of an extractor's own list, or of the merged list
compare(merged, a, b) == IF merged THEN compareMerged(a, b) ELSE compareExtracted(a, b)

\* Array.prototype.sort with one of the two comparators: a stable sort; x
\* goes before the first element it has to precede
RECURSIVE SortBy(_, _)
SortBy(list, merged) ==
    IF list = <<>> THEN <<>>
    ELSE LET front == SortBy(SubSeq(list, 1, Len(list) - 1), merged)
             x     == list[Len(list)]
             after == {i \in 1..Len(front) : NumLT(compare(merged, x, front[i]), Num(0))}
             k     == IF after = {} THEN Len(front) + 1
                      ELSE CHOOSE i \in after : \A j \in after : i <= j
         IN SubSeq(front, 1, k - 1) \o <<x>> \o SubSeq(front, k, Len(front))

MaxTitleLength == 200

MaxAmazonElements == 60

MaxMyntraElements == 50

PlaceholderImage == "https://images.unsplash.com/photo-1513475382585-d06e58bcb0e0?w=300&h=300&fit=crop"

\* The products one Amazon result element yields (none or one)
amazonElement(el, sanitizedSearch) ==
    LET title  == Trim(el.title)
        digits == SelectSeq(el.priceText, LAMBDA c : IsDigit(c) \/ c = ".")
        price  == IF digits = <<>> THEN <<"0">> ELSE digits
    IN IF title = <<>> \/ Len(title) < 3 THEN <<>>
       ELSE IF ParseFloat(price) = Num(0) THEN <<>>
       ELSE IF NumGT(ParseFloat(price), Num(0))
       THEN << Product(el.image, Substring0(title, MaxTitleLength), ParseFloat(price),
                       "amazon",
                       calculateRelevanceScore(title, sanitizedSearch, ParseFloat(price))) >>
       ELSE <<>>

\* The products one Myntra result element yields (none or one)
myntraElement(el, sanitizedSearch) ==
    LET title     == Trim(Trim(el.brand) \o <<" ">> \o Trim(el.productName))
        priceText == IF Trim(el.discountedPrice) # <<>> THEN Trim(el.discountedPrice)
                     ELSE Trim(el.dataProductPrice)
        price     == SelectSeq(priceText, IsDigit)
    IN IF title = <<>> THEN <<>>
       ELSE IF price # <<>> /\ NumGT(ParseFloat(price), Num(0))
       THEN << Product(IF el.image # "" THEN el.image ELSE PlaceholderImage,
                       Substring0(title, MaxTitleLength), OrZero(ParseFloat(price)),
                       "myntra",
                       calculateRelevanceScore(title, sanitizedSearch, ParseFloat(price))) >>
       ELSE <<>>

\* The elements of a page in page order, each through Element
RECURSIVE CollectAmazon(_, _)
CollectAmazon(els, sanitizedSearch) ==
    IF els = <<>> THEN <<>>
    ELSE amazonElement(Head(els), sanitizedSearch) \o CollectAmazon(Tail(els), sanitizedSearch)

RECURSIVE CollectMyntra(_, _)
CollectMyntra(els, sanitizedSearch) ==
    IF els = <<>> THEN <<>>
    ELSE myntraElement(Head(els), sanitizedSearch) \o CollectMyntra(Tail(els), sanitizedSearch)

\* Array.from(new Map(results.map((item) => [item.title.toLowerCase(), item])).values()):
\* one entry per key, at the place of the key's first item, holding the
\* key's last item
uniqueByTitle(results) ==
    LET key(i)  == ToLowerCase(results[i].title)
        firsts  == {i \in 1..Len(results) : \A j \in 1..(i - 1) : key(j) # key(i)}
        last(i) == CHOOSE j \in i..Len(results) :
                       key(j) = key(i) /\ \A m \in (j + 1)..Len(results) : key(m) # key(i)
        RECURSIVE Build(_)
        Build(i) == IF i > Len(results) THEN <<>>
                    ELSE (IF i \in firsts THEN <<results[last(i)]>> ELSE <<>>) \o Build(i + 1)
    IN Build(1)

\* The list the Amazon scrapeFunction computes from the rendered page
extractAmazon(page, sanitizedSearch) ==
    SortBy(uniqueByTitle(CollectAmazon(Substring0(page, MaxAmazonElements),
                                       sanitizedSearch)), FALSE)

\* The list the Myntra scrapeFunction computes from the rendered page
extractMyntra(page, sanitizedSearch) ==
    SortBy(CollectMyntra(Substring0(page, MaxMyntraElements), sanitizedSearch), FALSE)

----------------------------------------------------------------------------
(* The inputs the environment draws from *)

Str_mug == <<"m","u","g">>

\* A currency sign: one character that is neither a digit nor a separator
Rupee == "INR"

\* Requests: [search, highprice, category] as received
Request(search, highprice, category) ==
    [search |-> search, highprice |-> highprice, category |-> category]

\* The requests of the controller's specification: one of each kind
Requests ==
    { Request(JsString(Str_mug), <<>>, <<>>),
      Request(JsString(Str_mug), <<"2","0","0","0">>, <<"t","o","y","s">>),
      Request(JsString(<<>>), <<>>, <<>>),
      Request(JsString(<<" "," ">>), <<>>, <<>>),
      Request(JsString(Repeat("a", MaxSearchLength + 1)), <<>>, <<>>),
      Request(JsNumber(7), <<>>, <<>>),
      Request(JsString(Str_mug), <<"a","b","c">>, <<>>),
      Request(JsString(Str_mug), <<"-","5">>, <<>>),
      Request(JsString(Str_mug), <<"1","0","0","0","0","0","1">>, <<>>) }

\* The requests of the cache's specification: the same query written in
\* several ways, and a different one
CacheRequests ==
    { Request(JsString(Str_mug), <<>>, <<>>),
      Request(JsString(<<" ","M","u","g"," ">>), <<>>, <<>>),
      Request(JsString(Str_mug), <<"2","0","0","0">>, <<"t","o","y","s">>),
      Request(JsString(Str_mug), <<" ","2","0","0","0">>, <<"t","o","y","s">>),
      Request(JsString(Str_mug), <<"2","0","0","0">>, <<"t","o","y","s"," ">>) }

\* The requests of the specification of the cache keys: a term and a
\* category that hold the separator of the key, and the plain query
KeyRequests ==
    { Request(JsString(<<"m","u","g",":","5">>), <<>>, <<"x">>),
      Request(JsString(Str_mug), <<"5">>, <<":","x">>),
      Request(JsString(Str_mug), <<>>, <<>>) }

AmazonEl(title, priceText, image) ==
    [title |-> title, priceText |-> priceText, image |-> image]

\* Rendered Amazon result pages: the result elements in page order
AmazonPages ==
    LET mug4000 == AmazonEl(<<" ","M","u","g"," ">>,
                            <<Rupee,"4",",","0","0","0",".","0","0">>, "a1")
        MUG5000 == AmazonEl(<<"M","U","G">>, <<"5","0","0","0">>, "a2")
        amug3500 == AmazonEl(<<"A"," ","m","u","g">>, <<"3","5","0","0">>, "a3")
        mugset  == AmazonEl(<<"M","u","g"," ","S","e","t">>,
                            <<Rupee,"1",",","2","9","9",".","0","0">>, "")
        cup0    == AmazonEl(<<"C","u","p">>, <<Rupee,"0">>, "a5")
        jar     == AmazonEl(<<"J","a","r">>, <<"9","0","0">>, "a6")
        short   == AmazonEl(<<"A","b">>, <<"5","0">>, "a7")
        dot     == AmazonEl(<<"P","o","t">>, <<".">>, "a8")
        noprice == AmazonEl(<<"P","a","n">>, <<>>, "a9")
        huge    == AmazonEl(<<"B","i","g"," ","M","u","g">>,
                            Repeat("9", MaxFiniteDigits + 1), "a10")
    IN { <<>>,
         <<cup0, short, dot, noprice>>,
         <<MUG5000, cup0, amug3500, mug4000, mugset>>,
         <<jar, huge>> }

MyntraEl(brand, productName, discountedPrice, dataProductPrice, image) ==
    [brand |-> brand, productName |-> productName,
     discountedPrice |-> discountedPrice, dataProductPrice |-> dataProductPrice,
     image |-> image]

\* Rendered Myntra result pages: the li.product-base elements in page order
MyntraPages ==
    LET ace4500 == MyntraEl(<<"A","c","e">>, <<"M","u","g">>,
                            <<"R","s",".", " ","4","5","0","0">>, <<>>, "m1")
        ace3800 == MyntraEl(<<"A","c","e">>, <<"M","u","g">>,
                            <<"R","s",".", " ","3","8","0","0">>, <<>>, "m2")
        untitled == MyntraEl(<<>>, <<" ">>, <<"9","9">>, <<>>, "m3")
        cup     == MyntraEl(<<"A","c","e">>, <<"C","u","p">>, <<>>,
                            <<Rupee,"1",",","2","9","9",".","0","0">>, "")
        nova0   == MyntraEl(<<"N","o","v","a">>, <<"M","u","g">>, <<Rupee,"0">>, <<>>, "m5")
        \* the title, the score and the price of Amazon's " Mug " at 4,000
        mug4000 == MyntraEl(<<>>, <<"m","u","g">>, <<"4","0","0","0">>, <<>>, "m6")
    IN { <<>>,
         <<untitled, nova0>>,
         <<ace4500, untitled, ace3800>>,
         <<cup, nova0, mug4000>> }

----------------------------------------------------------------------------
(* State *)

VARIABLES
    searchCache,   \* the NodeCache: key -> [v: products, t: expiry time]
    now,           \* the clock, in seconds
    browserPool,   \* the shared browser: 0 (null) or the number of the browser
    launches,      \* browsers launched so far
    phase,         \* of the request: "idle", "racing" or "responded"
    req,           \* the request being served (the last one served)
    task,          \* per source: the scrape of the request
    response,      \* the response sent to the request
    nreq,          \* requests received so far
    settledAtEnd,  \* history: the sources that had settled when the race ended
    lastSet,       \* history: key -> [v, at, source, val] of the last set
    race           \* the handler's race: its two promises and what came of them

\* The state of the controller
controllerVars == <<searchCache, now, browserPool, launches, phase, req, task,
                    response, nreq, settledAtEnd, lastSet, race>>

\* The concurrency limiter (executeWithRateLimit)
VARIABLES
    activeScrapes,  \* operations executing
    scrapingQueue,  \* the operations waiting, in the order they were pushed
    op,             \* per operation: its progress, its outcome and its promise
    admitted        \* history: the operations in the order they started

limiterVars == <<activeScrapes, scrapingQueue, op, admitted>>

\* Requests served at the same time
VARIABLES
    inflight        \* per request and source: the scrape's hold on a page

\* One call of safeScrape with a maxRetries of its own
VARIABLES
    run             \* the call: its position, its locals and its history

\* The process-termination handler
VARIABLES
    sigint,         \* the SIGINT handler: "none", "closing" or "exited"
    closing,        \* the browser the handler awaits the close of
    closedBrowsers  \* the browsers that were closed

shutdownVars == <<sigint, closing, closedBrowsers>>

\* One call of validateScrapingParams
VARIABLES
    vcall           \* the arguments of the call and what it returned

\* One call of calculateRelevanceScore
VARIABLES
    scall           \* the arguments of the call and what it returned

\* The state outside the controller
unit == <<limiterVars, inflight, run, shutdownVars, vcall, scall>>

\* The state outside the limiter, outside the requests served at the same
\* time, outside the call of safeScrape, outside the termination handler
\* outside the call of the validator and outside the call of the scorer
outsideLimiter == <<controllerVars, inflight, run, shutdownVars, vcall, scall>>

outsideConcurrent == <<controllerVars, limiterVars, run, shutdownVars, vcall, scall>>

outsideRetry == <<controllerVars, limiterVars, inflight, shutdownVars, vcall, scall>>

outsideShutdown == <<controllerVars, limiterVars, inflight, run, vcall, scall>>

outsideValidator == <<controllerVars, limiterVars, inflight, run, shutdownVars, scall>>

outsideScorer == <<controllerVars, limiterVars, inflight, run, shutdownVars, vcall>>

vars == <<controllerVars, unit>>

Sources == {"amazon", "myntra"}

sourceName(s) == IF s = "amazon" THEN AmazonName ELSE MyntraName

\* safeScrape's default maxRetries
MaxRetries == 2

\* SCRAPING_CONFIG.cacheTTL, in seconds
cacheTTL == 300

\* merged.slice(0, 100)
MaxReturned == 100

\* Requests one run of the model serves
MaxRequests == 1

\* The clock advances in steps of TickSeconds, MaxTicks times
TickSeconds == cacheTTL \div 2

MaxTicks == 3

\* The scrape of a source. selector is how the wait for the result container
\* ended and rendered the candidates page.content() held; order is history:
\* the place of the scrape in the order the scrapes of the request settled
\* in (0: not settled)
IdleTask ==
    [pc |-> "idle", attempt |-> 0, browser |-> 0, page |-> FALSE, next |-> "",
     value |-> <<>>, key |-> <<>>, val |-> ValidationError(""), hit |-> FALSE,
     error |-> "", selector |-> "", rendered |-> <<>>, order |-> 0]

NoResponse ==
    [status |-> 0, success |-> FALSE, error |-> "", products |-> <<>>, total |-> 0,
     sources |-> [s \in Sources |-> FALSE]]

EmptyMap == [k \in {} |-> 0]

Settled(s) == task[s].pc \in {"fulfilled", "rejected"}

Quiescent == \A s \in Sources : task[s].pc \in {"idle", "fulfilled", "rejected"}

\* Operations one run of the model submits to the limiter
MaxOperations == 5

Operations == 1..MaxOperations

NewOperation == [st |-> "new", outcome |-> "none", promise |-> "pending"]

\* scrapingQueue = [], activeScrapes = 0
LimiterIdle ==
    /\ activeScrapes = 0
    /\ scrapingQueue = <<>>
    /\ op = [i \in Operations |-> NewOperation]
    /\ admitted = <<>>

\* Requests one run of the model serves at the same time
MaxConcurrentRequests == 3

ConcurrentRequests == 1..MaxConcurrentRequests

\* No request has arrived
NoneInflight == inflight = [r \in ConcurrentRequests |-> [s \in Sources |-> "none"]]

\* safeScrape is not running. page is the local of that name (0: undefined);
\* held are the pages acquired and not yet closed; pages, runs and closes
\* count browser.newPage(), scrapeFunction(page) and page.close();
\* stages lists what threw in each failed attempt
NoRun ==
    [pc |-> "idle", source |-> "", maxRetries |-> 0, attempt |-> 0, page |-> 0,
     held |-> {}, pages |-> 0, runs |-> 0, closes |-> 0, closeFailures |-> 0,
     stages |-> <<>>, next |-> "", backoffTime |-> 0,
     result |-> [kind |-> "none", source |-> "", attempts |-> 0, message |-> ""]]

\* validateScrapingParams has not been called
NoCall ==
    [called |-> FALSE, search |-> JsString(<<>>), highprice |-> <<>>,
     category |-> <<>>, result |-> ValidationError("")]

\* No race is on (race is the race of the request in service). timer is
\* the deadline timer ("none", "pending" or "fired"), subscribed whether
\* Promise.race has attached its reactions to the two promises, delivered
\* whether the resolution of Promise.allSettled was delivered to them; sent
\* counts the responses sent to the request and unhandled the rejections no
\* reaction was attached to
NoRace ==
    [timer |-> "none", subscribed |-> FALSE, delivered |-> FALSE, sent |-> 0,
     unhandled |-> 0]

\* calculateRelevanceScore has not been called
NoScore ==
    [called |-> FALSE, title |-> <<>>, search |-> <<>>, price |-> Num(0),
     result |-> Num(0)]

Init ==
    /\ searchCache = EmptyMap
    /\ now = 0
    /\ browserPool = 0
    /\ launches = 0
    /\ phase = "idle"
    /\ req = Request(JsString(<<>>), <<>>, <<>>)
    /\ task = [s \in Sources |-> IdleTask]
    /\ response = NoResponse
    /\ nreq = 0
    /\ settledAtEnd = {}
    /\ lastSet = EmptyMap
    /\ race = NoRace
    /\ LimiterIdle
    /\ NoneInflight
    /\ run = NoRun
    /\ sigint = "none"
    /\ closing = 0
    /\ closedBrowsers = {}
    /\ vcall = NoCall
    /\ scall = NoScore

----------------------------------------------------------------------------
(* The result cache (node-cache) *)

\* Faulty variant: entries that never expire
cacheLive_noExpiry(cache, key) == key \in DOMAIN cache

\* An entry is expired once its expiry time lies before the clock
cacheLive(cache, key) == key \in DOMAIN cache /\ ~(cache[key].t < now)

\* searchCache.get(key) deletes an expired entry it meets
cacheAfterGet(cache, key) ==
    IF key \in DOMAIN cache /\ ~cacheLive(cache, key)
    THEN [k \in DOMAIN cache \ {key} |-> cache[k]]
    ELSE cache

\* searchCache.set(key, products): expiry at now + stdTTL
cacheSet(cache, key, products) ==
    [k \in DOMAIN cache \cup {key} |->
        IF k = key THEN [v |-> products, t |-> now + cacheTTL] ELSE cache[k]]

----------------------------------------------------------------------------
(* safeScrape and the two scrapers *)

\* The start of an attempt of safeScrape's loop: initBrowserPool() reads
\* browserPool and launches a browser when there is none
beginAttempt(tk, n) ==
    [tk EXCEPT !.attempt = n, !.next = "", !.browser = browserPool,
               !.pc = IF browserPool = 0 THEN "launching" ELSE "newpage"]

sourceCategory(s, r) == IF s = "amazon" THEN r.category ELSE <<>>

\* The cache key scrapeAmazon / scrapeMyntra compute for a request
sourceKey(s, r) ==
    generateCacheKey(r.search.str, r.highprice, sourceCategory(s, r), sourceName(s))

\* Faulty variant: a scraper that finds its key in the cache scrapes anyway
scrapeStart_scrapesOnHit(s, r) ==
    LET val == validateScrapingParams(r.search, r.highprice, sourceCategory(s, r))
        key == sourceKey(s, r)
    IN IF ~val.ok THEN [IdleTask EXCEPT !.pc = "rejected", !.val = val, !.error = val.error,
                                        !.order = 1]
       ELSE beginAttempt([IdleTask EXCEPT !.key = key, !.val = val,
                                          !.hit = cacheLive(searchCache, key)], 1)

\* scrapeAmazon / scrapeMyntra up to their first await: validation, the
\* cache lookup, and on a miss the start of safeScrape
scrapeStart(s, r) ==
    LET val == validateScrapingParams(r.search, r.highprice, sourceCategory(s, r))
        key == sourceKey(s, r)
        \* scrapeAmazon is called first: it has settled before scrapeMyntra
        \* when it ends without an await
        amazonFirst ==
            /\ s = "myntra"
            /\ \/ ~validateScrapingParams(r.search, r.highprice, r.category).ok
               \/ cacheLive(searchCache, sourceKey("amazon", r))
        order == IF amazonFirst THEN 2 ELSE 1
    IN IF ~val.ok THEN [IdleTask EXCEPT !.pc = "rejected", !.val = val, !.error = val.error,
                                        !.order = order]
       ELSE IF cacheLive(searchCache, key)
       THEN [IdleTask EXCEPT !.pc = "fulfilled", !.value = searchCache[key].v,
                             !.key = key, !.val = val, !.hit = TRUE, !.order = order]
       ELSE beginAttempt([IdleTask EXCEPT !.key = key, !.val = val], 1)

extract(s, page, sanitizedSearch) ==
    IF s = "amazon" THEN extractAmazon(page, sanitizedSearch)
    ELSE extractMyntra(page, sanitizedSearch)

Pages(s) == IF s = "amazon" THEN AmazonPages ELSE MyntraPages

\* The pages of the cache's specification: per source, the empty page and
\* the page with the most products
CachePages(s) ==
    {<<>>} \cup {page \in Pages(s) : \A other \in Pages(s) : Len(other) <= Len(page)}

\* The search terms the validator hands to the scrapers
Terms ==
    {validateScrapingParams(r.search, r.highprice, r.category).sanitizedSearch :
        r \in Requests \cup CacheRequests \cup KeyRequests}

\* extract, tabulated over the pages and terms of the model
extracted == [s \in Sources |-> [page \in Pages(s) |-> [term \in Terms |->
                 extract(s, page, term)]]]

\* puppeteer.launch() resolves: initBrowserPool stores and returns the browser
Launched(s) ==
    /\ task[s].pc = "launching"
    /\ launches' = launches + 1
    /\ browserPool' = launches + 1
    /\ task' = [task EXCEPT ![s].browser = launches + 1, ![s].pc = "newpage"]
    /\ UNCHANGED <<searchCache, now, phase, req, response, nreq, settledAtEnd,
                   lastSet>>
    /\ UNCHANGED <<unit, race>>

\* browser.newPage() and the page's configuration
NewPage(s) ==
    /\ task[s].pc = "newpage"
    /\ task' = [task EXCEPT ![s].page = TRUE, ![s].pc = "page"]
    /\ UNCHANGED <<searchCache, now, browserPool, launches, phase, req, response,
                   nreq, settledAtEnd, lastSet>>
    /\ UNCHANGED <<unit, race>>

\* The ways page.waitForSelector(...) of the result container can end on a
\* page that renders as given: the candidates are inside the container, so
\* with a candidate the selector is found; without one the wait runs into
\* its timeout (Myntra's wait is also met by any [data-reactid] element)
selectorWait(s, page) ==
    IF page # <<>> THEN {"found"}
    ELSE IF s = "myntra" THEN {"found", "timeout"}
    ELSE {"timeout"}

\* Faulty variant: the timeout of the wait for the result container is
\* thrown to safeScrape
ScrapeReturns_failsOnTimeout(s, pages) ==
    /\ task[s].pc = "page"
    /\ \E page \in pages : \E outcome \in selectorWait(s, page) :
         task' = [task EXCEPT ![s] =
                    IF outcome = "timeout"
                    THEN [@ EXCEPT
                            !.selector = outcome,
                            !.pc = IF task[s].attempt = MaxRetries THEN "close"
                                   ELSE "backoff",
                            !.next = IF task[s].attempt = MaxRetries THEN "throw"
                                     ELSE "retry"]
                    ELSE [@ EXCEPT
                            !.value = extracted[s][page][task[s].val.sanitizedSearch],
                            !.selector = outcome, !.rendered = page,
                            !.next = "return", !.pc = "close"]]
    /\ UNCHANGED <<searchCache, now, browserPool, launches, phase, req, response,
                   nreq, settledAtEnd, lastSet>>
    /\ UNCHANGED <<unit, race>>

\* scrapeFunction(page) returns: page.goto() resolved, the wait for the
\* result container ended (its timeout is caught and logged), and the
\* candidates of page.content() were read; value holds the list the scraper
\* makes of them once safeScrape has returned
ScrapeReturns(s, pages) ==
    /\ task[s].pc = "page"
    /\ \E page \in pages : \E outcome \in selectorWait(s, page) :
         task' = [task EXCEPT
                    ![s].value = extracted[s][page][task[s].val.sanitizedSearch],
                    ![s].selector = outcome, ![s].rendered = page,
                    ![s].next = "return", ![s].pc = "close"]
    /\ UNCHANGED <<searchCache, now, browserPool, launches, phase, req, response,
                   nreq, settledAtEnd, lastSet>>
    /\ UNCHANGED <<unit, race>>

\* The attempt throws (the launch, the new page, the navigation or the read
\* of the page's content fails):
\* the last attempt rethrows, an earlier one waits out the backoff
AttemptThrows(s) ==
    /\ task[s].pc \in {"launching", "newpage", "page"}
    /\ task' = [task EXCEPT
                  ![s].pc = IF task[s].attempt = MaxRetries THEN "close" ELSE "backoff",
                  ![s].next = IF task[s].attempt = MaxRetries THEN "throw" ELSE "retry"]
    /\ UNCHANGED <<searchCache, now, browserPool, launches, phase, req, response,
                   nreq, settledAtEnd, lastSet>>
    /\ UNCHANGED <<unit, race>>

\* The backoff timer fires: the catch block ends and the finally block runs
BackoffElapsed(s) ==
    /\ task[s].pc = "backoff"
    /\ task' = [task EXCEPT ![s].pc = "close"]
    /\ UNCHANGED <<searchCache, now, browserPool, launches, phase, req, response,
                   nreq, settledAtEnd, lastSet>>
    /\ UNCHANGED <<unit, race>>

\* The scrapes of the request that have settled
settledSoFar == Cardinality({s \in Sources : Settled(s)})

\* Faulty variant: the scraper caches whatever list it returns
Finally_cachesAny(s) ==
    /\ task[s].pc = "close"
    /\ task' = [task EXCEPT ![s] =
         CASE task[s].next = "return" ->
                [@ EXCEPT !.page = FALSE, !.pc = "fulfilled", !.attempt = 0,
                          !.browser = 0, !.next = "", !.order = settledSoFar + 1]
           [] task[s].next = "throw"  ->
                [@ EXCEPT !.page = FALSE, !.pc = "rejected", !.browser = 0, !.next = "",
                          !.error = "Failed to scrape after attempts",
                          !.order = settledSoFar + 1]
           [] OTHER -> beginAttempt([@ EXCEPT !.page = FALSE], @.attempt + 1)]
    /\ IF task[s].next = "return"
       THEN /\ searchCache' = cacheSet(searchCache, task[s].key, task[s].value)
            /\ lastSet' = [k \in DOMAIN lastSet \cup {task[s].key} |->
                             IF k = task[s].key
                             THEN [v |-> task[s].value, at |-> now, source |-> s,
                                   val |-> task[s].val]
                             ELSE lastSet[k]]
       ELSE UNCHANGED <<searchCache, lastSet>>
    /\ UNCHANGED <<now, browserPool, launches, phase, req, response, nreq,
                   settledAtEnd>>
    /\ UNCHANGED <<unit, race>>

\* Faulty variant: a scrape left behind at the deadline is stopped where it
\* is, its finally block never running
Finally_untilAnswered(s) ==
    /\ phase = "racing"
    /\ task[s].pc = "close"
    /\ task' = [task EXCEPT ![s] =
         CASE task[s].next = "return" ->
                [@ EXCEPT !.page = FALSE, !.pc = "fulfilled", !.attempt = 0,
                          !.browser = 0, !.next = "", !.order = settledSoFar + 1]
           [] task[s].next = "throw"  ->
                [@ EXCEPT !.page = FALSE, !.pc = "rejected", !.browser = 0, !.next = "",
                          !.error = "Failed to scrape after attempts",
                          !.order = settledSoFar + 1]
           [] OTHER -> beginAttempt([@ EXCEPT !.page = FALSE], @.attempt + 1)]
    /\ IF task[s].next = "return" /\ Len(task[s].value) > 0
       THEN /\ searchCache' = cacheSet(searchCache, task[s].key, task[s].value)
            /\ lastSet' = [k \in DOMAIN lastSet \cup {task[s].key} |->
                             IF k = task[s].key
                             THEN [v |-> task[s].value, at |-> now, source |-> s,
                                   val |-> task[s].val]
                             ELSE lastSet[k]]
       ELSE UNCHANGED <<searchCache, lastSet>>
    /\ UNCHANGED <<now, browserPool, launches, phase, req, response, nreq,
                   settledAtEnd>>
    /\ UNCHANGED <<unit, race>>

\* The finally block: the page is closed if one is open, then safeScrape
\* throws, starts the next attempt, or returns to the scraper, which sorts
\* the products, caches a non-empty list and returns it
Finally(s) ==
    /\ task[s].pc = "close"
    /\ task' = [task EXCEPT ![s] =
         CASE task[s].next = "return" ->
                [@ EXCEPT !.page = FALSE, !.pc = "fulfilled", !.attempt = 0,
                          !.browser = 0, !.next = "", !.order = settledSoFar + 1]
           [] task[s].next = "throw"  ->
                [@ EXCEPT !.page = FALSE, !.pc = "rejected", !.browser = 0, !.next = "",
                          !.error = "Failed to scrape after attempts",
                          !.order = settledSoFar + 1]
           [] OTHER -> beginAttempt([@ EXCEPT !.page = FALSE], @.attempt + 1)]
    /\ IF task[s].next = "return" /\ Len(task[s].value) > 0
       THEN /\ searchCache' = cacheSet(searchCache, task[s].key, task[s].value)
            /\ lastSet' = [k \in DOMAIN lastSet \cup {task[s].key} |->
                             IF k = task[s].key
                             THEN [v |-> task[s].value, at |-> now, source |-> s,
                                   val |-> task[s].val]
                             ELSE lastSet[k]]
       ELSE UNCHANGED <<searchCache, lastSet>>
    /\ UNCHANGED <<now, browserPool, launches, phase, req, response, nreq,
                   settledAtEnd>>
    /\ UNCHANGED <<unit, race>>

----------------------------------------------------------------------------
(* exports.scrape *)

\* res.status(400).json({success: false, error})
BadRequest ==
    [NoResponse EXCEPT !.status = 400,
                       !.error = "Search query is required and cannot be empty"]

\* The catch block's res.status(500).json(...)
ServerError(message) ==
    [NoResponse EXCEPT !.status = 500, !.error = message]

\* The part of a settled source's result the controller merges
contribution(tk) ==
    IF tk.pc = "fulfilled" /\ Len(tk.value) > 0 THEN tk.value ELSE <<>>

\* Faulty variant: the flag of any settled source set
sourceFlag_anySettled(tk) == tk.pc \in {"fulfilled", "rejected"}

\* sources.amazon / sources.myntra
sourceFlag(tk) == tk.pc = "fulfilled" /\ Len(tk.value) > 0

\* Faulty variant: one rejected source fails the request (Promise.all)
Success_allOrNothing(amazonProducts, myntraProducts) ==
    IF amazonProducts.pc = "rejected" \/ myntraProducts.pc = "rejected"
    THEN ServerError("Error scraping products")
    ELSE [status |-> 200, success |-> TRUE, error |-> "",
          products |-> Substring0(SortBy(contribution(amazonProducts)
                                         \o contribution(myntraProducts), TRUE),
                                  MaxReturned),
          total |-> Len(contribution(amazonProducts)) + Len(contribution(myntraProducts)),
          sources |-> [s \in Sources |->
                         IF s = "amazon" THEN sourceFlag(amazonProducts)
                         ELSE sourceFlag(myntraProducts)]]

\* Faulty variant: the lists are merged in the order the sources completed
Success_completionOrder(amazonProducts, myntraProducts) ==
    LET merged == IF myntraProducts.order < amazonProducts.order
                  THEN SortBy(contribution(myntraProducts)
                              \o contribution(amazonProducts), TRUE)
                  ELSE SortBy(contribution(amazonProducts)
                              \o contribution(myntraProducts), TRUE)
    IN [status |-> 200, success |-> TRUE, error |-> "",
        products |-> Substring0(merged, MaxReturned),
        total |-> Len(merged),
        sources |-> [s \in Sources |->
                       IF s = "amazon" THEN sourceFlag(amazonProducts)
                       ELSE sourceFlag(myntraProducts)]]

\* The success response built from the two settled results
Success(amazonProducts, myntraProducts) ==
    LET merged == SortBy(contribution(amazonProducts) \o contribution(myntraProducts),
                         TRUE)
    IN [status |-> 200, success |-> TRUE, error |-> "",
        products |-> Substring0(merged, MaxReturned),
        total |-> Len(merged),
        sources |-> [s \in Sources |->
                       IF s = "amazon" THEN sourceFlag(amazonProducts)
                       ELSE sourceFlag(myntraProducts)]]

\* Faulty variant: the handler goes on at every settlement of a promise of
\* the race
raceSettles_every(rc, first) == [rc EXCEPT !.sent = @ + 1]

\* One of the two promises of the race settles: the race takes the outcome
\* of the first to settle, and the handler, which awaits the race, goes on
\* to its response; the reactions of the race to the second do nothing
raceSettles(rc, first) == [rc EXCEPT !.sent = IF first THEN @ + 1 ELSE @]

\* A request arrives: the handler runs up to its await of the race
ReceiveRequest(r, quota) ==
    /\ phase \in {"idle", "responded"}
    /\ Quiescent
    /\ nreq < quota
    /\ nreq' = nreq + 1
    /\ req' = r
    /\ settledAtEnd' = {}
    /\ IF ~Truthy(r.search) \/ (r.search.type = "string" /\ Len(Trim(r.search.str)) = 0)
       THEN /\ response' = BadRequest
            /\ phase' = "responded"
            /\ task' = [s \in Sources |-> IdleTask]
            /\ race' = [NoRace EXCEPT !.sent = 1]
            /\ UNCHANGED searchCache
       ELSE IF r.search.type # "string"
       THEN \* search.trim is not a function: the TypeError reaches the catch block
            /\ response' = ServerError("Error scraping products")
            /\ phase' = "responded"
            /\ task' = [s \in Sources |-> IdleTask]
            /\ race' = [NoRace EXCEPT !.sent = 1]
            /\ UNCHANGED searchCache
       ELSE /\ response' = NoResponse
            /\ phase' = "racing"
            /\ task' = [s \in Sources |-> scrapeStart(s, r)]
            /\ race' = [NoRace EXCEPT !.timer = "pending", !.subscribed = TRUE]
            /\ searchCache' =
                 IF validateScrapingParams(r.search, r.highprice, r.category).ok
                 THEN cacheAfterGet(cacheAfterGet(searchCache, sourceKey("amazon", r)),
                                    sourceKey("myntra", r))
                 ELSE searchCache
    /\ UNCHANGED <<now, browserPool, launches, lastSet>>
    /\ UNCHANGED unit

\* Promise.allSettled wins the race: both sources have settled
Respond ==
    /\ phase = "racing"
    /\ \A s \in Sources : Settled(s)
    /\ response' = Success(task["amazon"], task["myntra"])
    /\ phase' = "responded"
    /\ settledAtEnd' = Sources
    /\ race' = raceSettles([race EXCEPT !.delivered = TRUE], TRUE)
    /\ UNCHANGED <<searchCache, now, browserPool, launches, req, task, nreq,
                   lastSet>>
    /\ UNCHANGED unit

\* Faulty variant: at the deadline the settled sources are answered with
Timeout_keepsSettled ==
    /\ phase = "racing"
    /\ \E s \in Sources : ~Settled(s)
    /\ response' = IF \E s \in Sources : Settled(s)
                   THEN Success(task["amazon"], task["myntra"])
                   ELSE ServerError("Request timeout - try a simpler search")
    /\ phase' = "responded"
    /\ settledAtEnd' = {s \in Sources : Settled(s)}
    /\ race' = raceSettles([race EXCEPT !.timer = "fired"], TRUE)
    /\ UNCHANGED <<searchCache, now, browserPool, launches, req, task, nreq,
                   lastSet>>
    /\ UNCHANGED unit

\* The 20 s timer wins the race: the await throws into the catch block; the
\* scrapes still pending keep running
Timeout ==
    /\ phase = "racing"
    /\ \E s \in Sources : ~Settled(s)
    /\ response' = ServerError("Request timeout - try a simpler search")
    /\ phase' = "responded"
    /\ settledAtEnd' = {s \in Sources : Settled(s)}
    /\ race' = raceSettles([race EXCEPT !.timer = "fired"], TRUE)
    /\ UNCHANGED <<searchCache, now, browserPool, launches, req, task, nreq,
                   lastSet>>
    /\ UNCHANGED unit

\* The 20 s timer fires after the scrapes won the race: its promise rejects,
\* and the rejection goes to the reaction Promise.race attached to it
LateTimer ==
    /\ phase = "responded"
    /\ race.timer = "pending"
    /\ race' = raceSettles([race EXCEPT !.timer = "fired",
                                         !.unhandled = IF race.subscribed THEN @
                                                       ELSE @ + 1], FALSE)
    /\ UNCHANGED <<searchCache, now, browserPool, launches, phase, req, task,
                   response, nreq, settledAtEnd, lastSet>>
    /\ UNCHANGED unit

\* The scrapes abandoned at the deadline have all settled: Promise.allSettled
\* resolves, after the timer won the race
LateSettle ==
    /\ phase = "responded"
    /\ race.timer = "fired"
    /\ ~race.delivered
    /\ \A s \in Sources : Settled(s)
    /\ race' = raceSettles([race EXCEPT !.delivered = TRUE], FALSE)
    /\ UNCHANGED <<searchCache, now, browserPool, launches, phase, req, task,
                   response, nreq, settledAtEnd, lastSet>>
    /\ UNCHANGED unit

\* Time passes (between requests: a request is short against the TTL)
Tick ==
    /\ phase # "racing"
    /\ Quiescent
    /\ now < MaxTicks * TickSeconds
    /\ now' = now + TickSeconds
    /\ UNCHANGED <<searchCache, browserPool, launches, phase, req, task, response,
                   nreq, settledAtEnd, lastSet>>
    /\ UNCHANGED <<unit, race>>

\* node-cache's periodic check (checkperiod) deletes the expired entries
CheckData ==
    /\ \E k \in DOMAIN searchCache : ~cacheLive(searchCache, k)
    /\ searchCache' = [k \in {x \in DOMAIN searchCache : cacheLive(searchCache, x)} |->
                         searchCache[k]]
    /\ UNCHANGED <<now, browserPool, launches, phase, req, task, response, nreq,
                   settledAtEnd, lastSet>>
    /\ UNCHANGED <<unit, race>>

Next ==
    \/ \E r \in Requests : ReceiveRequest(r, MaxRequests)
    \/ \E s \in Sources : Launched(s)
    \/ \E s \in Sources : NewPage(s)
    \/ \E s \in Sources : ScrapeReturns(s, Pages(s))
    \/ \E s \in Sources : AttemptThrows(s)
    \/ \E s \in Sources : BackoffElapsed(s)
    \/ \E s \in Sources : Finally(s)
    \/ Respond
    \/ Timeout
    \/ LateTimer
    \/ LateSettle
    \/ Tick
    \/ CheckData

Spec == Init /\ [][Next]_vars

\* Requests one run of the cache's specification serves
MaxCacheRequests == 2

\* The cache across requests: the same operations with the requests that
\* share or nearly share a key, and every attempt succeeding (a failing
\* attempt does not touch the cache)
NextCache ==
    \/ \E r \in CacheRequests : ReceiveRequest(r, MaxCacheRequests)
    \/ \E s \in Sources : Launched(s)
    \/ \E s \in Sources : NewPage(s)
    \/ \E s \in Sources : ScrapeReturns(s, CachePages(s))
    \/ \E s \in Sources : Finally(s)
    \/ Respond
    \/ Timeout
    \/ Tick
    \/ CheckData

SpecCache == Init /\ [][NextCache]_vars

\* The cache keys across requests: the same operations with the requests
\* whose fields hold the separator, the clock standing still
NextKeys ==
    \/ \E r \in KeyRequests : ReceiveRequest(r, MaxCacheRequests)
    \/ \E s \in Sources : Launched(s)
    \/ \E s \in Sources : NewPage(s)
    \/ \E s \in Sources : ScrapeReturns(s, CachePages(s))
    \/ \E s \in Sources : Finally(s)
    \/ Respond
    \/ Timeout

SpecKeys == Init /\ [][NextKeys]_vars

\* The requests of the specification of the abandoned scrapes: two queries
\* with different keys, so that a request finds the cache with and without
\* what the scrapes of an earlier one left in it
AbandonRequests ==
    {r \in CacheRequests : r.search.str = Str_mug /\ Trim(r.highprice) = r.highprice
                           /\ Trim(r.category) = r.category}

\* A step of the scrape of source s: one of its awaits settles
scrapeStep(s) ==
    \/ Launched(s)
    \/ NewPage(s)
    \/ ScrapeReturns(s, CachePages(s))
    \/ AttemptThrows(s)
    \/ BackoffElapsed(s)
    \/ Finally(s)

\* Requests answered at the deadline or before it, one after the other, the
\* clock standing still: nothing in the handler's catch block stops or
\* cancels the scrapes it leaves behind
NextAbandon ==
    \/ \E r \in AbandonRequests : ReceiveRequest(r, MaxCacheRequests)
    \/ \E s \in Sources : scrapeStep(s)
    \/ Respond
    \/ Timeout
    \/ LateTimer
    \/ LateSettle

\* Every await of a scrape settles in the end: the launch, the navigation and
\* the wait for the selector have timeouts of their own, the backoff is a
\* timer, and the process goes on running after the response
SpecAbandon ==
    /\ Init /\ [][NextAbandon]_vars
    /\ \A s \in Sources : WF_vars(scrapeStep(s))

----------------------------------------------------------------------------
(* The concurrency limiter: executeWithRateLimit *)

MAX_CONCURRENT_SCRAPES == 2

Outcomes == {"fulfilled", "rejected"}

\* execute(): activeScrapes++ and scrapeFn(...args) is called
execute(ops, i) == [ops EXCEPT ![i].st = "running"]

\* executeWithRateLimit(scrapeFn, ...args) is called for the next operation
\* (the operations are numbered in the order of their calls): it executes at
\* once while a slot is free and is pushed on the queue otherwise
Submit ==
    \E i \in Operations :
        /\ op[i].st = "new"
        /\ \A j \in 1..(i - 1) : op[j].st # "new"
        /\ IF activeScrapes < MAX_CONCURRENT_SCRAPES
           THEN /\ activeScrapes' = activeScrapes + 1
                /\ op' = execute(op, i)
                /\ admitted' = Append(admitted, i)
                /\ UNCHANGED scrapingQueue
           ELSE /\ scrapingQueue' = Append(scrapingQueue, i)
                /\ op' = [op EXCEPT ![i].st = "queued"]
                /\ UNCHANGED <<activeScrapes, admitted>>
        /\ UNCHANGED outsideLimiter

\* The promise of a running operation's scrapeFn settles
OperationSettles(i, outcome) ==
    /\ op[i].st = "running"
    /\ op' = [op EXCEPT ![i].st = "settled", ![i].outcome = outcome]
    /\ UNCHANGED <<activeScrapes, scrapingQueue, admitted, outsideLimiter>>

\* Faulty variant: the slot is handed to the operation queued last
Release_last(i) ==
    /\ op[i].st = "settled"
    /\ IF Len(scrapingQueue) > 0
       THEN /\ activeScrapes' = activeScrapes
            /\ scrapingQueue' = SubSeq(scrapingQueue, 1, Len(scrapingQueue) - 1)
            /\ op' = execute([op EXCEPT ![i].st = "released",
                                        ![i].promise = op[i].outcome],
                             scrapingQueue[Len(scrapingQueue)])
            /\ admitted' = Append(admitted, scrapingQueue[Len(scrapingQueue)])
       ELSE /\ activeScrapes' = activeScrapes - 1
            /\ op' = [op EXCEPT ![i].st = "released", ![i].promise = op[i].outcome]
            /\ UNCHANGED <<scrapingQueue, admitted>>
    /\ UNCHANGED outsideLimiter

\* Faulty variant: only an operation that fulfils gives its slot back
Release_onFulfilOnly(i) ==
    /\ op[i].st = "settled"
    /\ IF op[i].outcome = "fulfilled" /\ Len(scrapingQueue) > 0
       THEN /\ activeScrapes' = activeScrapes
            /\ scrapingQueue' = Tail(scrapingQueue)
            /\ op' = execute([op EXCEPT ![i].st = "released",
                                        ![i].promise = op[i].outcome],
                             Head(scrapingQueue))
            /\ admitted' = Append(admitted, Head(scrapingQueue))
       ELSE /\ activeScrapes' = IF op[i].outcome = "fulfilled"
                                THEN activeScrapes - 1 ELSE activeScrapes
            /\ op' = [op EXCEPT ![i].st = "released", ![i].promise = op[i].outcome]
            /\ UNCHANGED <<scrapingQueue, admitted>>
    /\ UNCHANGED outsideLimiter

\* Faulty variant: the slot is given back and no waiting operation is started
Release_noHandOff(i) ==
    /\ op[i].st = "settled"
    /\ activeScrapes' = activeScrapes - 1
    /\ op' = [op EXCEPT ![i].st = "released", ![i].promise = op[i].outcome]
    /\ UNCHANGED <<scrapingQueue, admitted>>
    /\ UNCHANGED outsideLimiter

\* execute() resumes after its await: resolve(result) or reject(error), then
\* the finally block: activeScrapes-- and, when an operation waits, the head
\* of the queue is shifted and executed (activeScrapes++)
Release(i) ==
    /\ op[i].st = "settled"
    /\ IF Len(scrapingQueue) > 0
       THEN /\ activeScrapes' = (activeScrapes - 1) + 1
            /\ scrapingQueue' = Tail(scrapingQueue)
            /\ op' = execute([op EXCEPT ![i].st = "released",
                                        ![i].promise = op[i].outcome],
                             Head(scrapingQueue))
            /\ admitted' = Append(admitted, Head(scrapingQueue))
       ELSE /\ activeScrapes' = activeScrapes - 1
            /\ op' = [op EXCEPT ![i].st = "released", ![i].promise = op[i].outcome]
            /\ UNCHANGED <<scrapingQueue, admitted>>
    /\ UNCHANGED outsideLimiter

NextLimiter ==
    \/ Submit
    \/ \E i \in Operations : \E outcome \in Outcomes : OperationSettles(i, outcome)
    \/ \E i \in Operations : Release(i)

SpecLimiter == Init /\ [][NextLimiter]_vars

\* Every admitted operation settles in the end, and the continuation of a
\* settled promise runs
SpecLimiterFair ==
    /\ SpecLimiter
    /\ \A i \in Operations :
         /\ WF_vars(\E outcome \in Outcomes : OperationSettles(i, outcome))
         /\ WF_vars(Release(i))

----------------------------------------------------------------------------
(* Requests served at the same time by exports.scrape *)

\* A request arrives while others are served: the handler calls scrapeAmazon
\* and scrapeMyntra, nothing stands between the call and the scrape
Arrive(r) ==
    /\ inflight[r] = [s \in Sources |-> "none"]
    /\ \A q \in 1..(r - 1) : inflight[q] # [s \in Sources |-> "none"]
    /\ inflight' = [inflight EXCEPT ![r] = [s \in Sources |-> "started"]]
    /\ UNCHANGED outsideConcurrent

\* safeScrape of the scrape of source s for request r: browser.newPage()
OpenPage(r, s) ==
    /\ inflight[r][s] = "started"
    /\ inflight' = [inflight EXCEPT ![r][s] = "page"]
    /\ UNCHANGED outsideConcurrent

\* safeScrape's finally block: page.close()
ClosePage(r, s) ==
    /\ inflight[r][s] = "page"
    /\ inflight' = [inflight EXCEPT ![r][s] = "closed"]
    /\ UNCHANGED outsideConcurrent

NextConcurrent ==
    \/ \E r \in ConcurrentRequests : Arrive(r)
    \/ \E r \in ConcurrentRequests : \E s \in Sources : OpenPage(r, s)
    \/ \E r \in ConcurrentRequests : \E s \in Sources : ClosePage(r, s)

SpecConcurrent == Init /\ [][NextConcurrent]_vars

----------------------------------------------------------------------------
(* safeScrape(scrapeFunction, source, maxRetries) *)

\* The maxRetries the model calls safeScrape with: 1..MaxRetriesTried, and
\* the values of NoAttemptRetries
MaxRetriesTried == 5

BackoffBase == 1000

BackoffCap == 10000

MaxJitter == 1000

\* Math.random() * 1000, sampled
Jitters == {0, MaxJitter \div 2, MaxJitter - 1}

Min(a, b) == IF a < b THEN a ELSE b

\* Faulty variant: a delay that grows with the attempt and has no cap
backoffTime_uncapped(attempt, jitter) == BackoffBase * (2 ^ attempt) + jitter

\* Math.min(1000 * Math.pow(2, attempt) + Math.random() * 1000, 10000)
backoffTime(attempt, jitter) == Min(BackoffBase * (2 ^ attempt) + jitter, BackoffCap)

Stages == {"launch", "newPage", "configure", "operation"}

\* The maxRetries for which the loop body never runs
NoAttemptRetries == {0, -1}

\* attempt <= maxRetries: the condition of the for loop
inLoop(attempt, maxRetries) == attempt <= maxRetries

\* The loop ends with neither a return nor a throw: the async function
\* resolves with undefined
fallsThrough(r) ==
    [r EXCEPT !.pc = "fulfilled", !.next = "",
              !.result = [kind |-> "undefined", source |-> r.source,
                          attempts |-> r.runs, message |-> ""]]

\* safeScrape is called: let attempt = 1, and the first test of the loop
Call(s, m) ==
    /\ run.pc = "idle"
    /\ run' = IF inLoop(1, m)
              THEN [NoRun EXCEPT !.pc = "launching", !.source = s,
                                 !.maxRetries = m, !.attempt = 1]
              ELSE fallsThrough([NoRun EXCEPT !.source = s, !.maxRetries = m,
                                              !.attempt = 1])
    /\ UNCHANGED outsideRetry

\* initBrowserPool() resolves
BrowserReady ==
    /\ run.pc = "launching"
    /\ run' = [run EXCEPT !.pc = "newpage"]
    /\ UNCHANGED outsideRetry

\* page = await browser.newPage(): a page no attempt has had before
PageAcquired ==
    /\ run.pc = "newpage"
    /\ run' = [run EXCEPT !.pc = "configuring", !.pages = @ + 1,
                          !.page = run.pages + 1,
                          !.held = @ \cup {run.pages + 1}]
    /\ UNCHANGED outsideRetry

\* The page is configured and scrapeFunction(page) is called
OperationStarts ==
    /\ run.pc = "configuring"
    /\ run' = [run EXCEPT !.pc = "operation", !.runs = @ + 1]
    /\ UNCHANGED outsideRetry

\* scrapeFunction(page) resolves: return result
OperationReturns ==
    /\ run.pc = "operation"
    /\ run' = [run EXCEPT !.pc = "closing", !.next = "return"]
    /\ UNCHANGED outsideRetry

\* Faulty variant: the attempt before the last one is taken for the last
lastAttempt_early(r) == r.attempt + 1 >= r.maxRetries

\* attempt === maxRetries
lastAttempt(r) == r.attempt = r.maxRetries

\* An await of the try block rejects: the catch block rethrows on the
\* last attempt and otherwise starts the backoff timer
Throws(stage, jitter) ==
    /\ \/ stage = "launch" /\ run.pc = "launching"
       \/ stage = "newPage" /\ run.pc = "newpage"
       \/ stage = "configure" /\ run.pc = "configuring"
       \/ stage = "operation" /\ run.pc = "operation"
    /\ run' = IF lastAttempt(run)
              THEN [run EXCEPT !.stages = Append(@, stage), !.pc = "closing",
                               !.next = "throw"]
              ELSE [run EXCEPT !.stages = Append(@, stage), !.pc = "backoff",
                               !.next = "retry",
                               !.backoffTime = backoffTime(run.attempt, jitter)]
    /\ UNCHANGED outsideRetry

\* The backoff timer fires
BackoffDone ==
    /\ run.pc = "backoff"
    /\ run' = [run EXCEPT !.pc = "closing"]
    /\ UNCHANGED outsideRetry

\* What follows the finally block: the return, the throw or the next attempt
afterFinally(r) ==
    CASE r.next = "return" ->
           [r EXCEPT !.pc = "fulfilled", !.next = "",
                     !.result = [kind |-> "value", source |-> r.source,
                                 attempts |-> r.attempt, message |-> ""]]
      [] r.next = "throw" ->
           [r EXCEPT !.pc = "rejected", !.next = "",
                     !.result = [kind |-> "error", source |-> r.source,
                                 attempts |-> r.maxRetries,
                                 message |-> r.stages[Len(r.stages)]]]
      [] OTHER ->
           IF inLoop(r.attempt + 1, r.maxRetries)
           THEN [r EXCEPT !.pc = "launching", !.next = "", !.attempt = @ + 1]
           ELSE fallsThrough([r EXCEPT !.attempt = @ + 1])

\* Faulty variant: the page is closed only when the operation returned
closePage_onReturn(r, ok) ==
    IF r.page \in r.held /\ r.next = "return"
    THEN [r EXCEPT !.held = @ \ {r.page}, !.closes = @ + 1,
                   !.closeFailures = IF ok THEN @ ELSE @ + 1]
    ELSE r

\* if (page && !page.isClosed()) await page.close().catch(console.error):
\* a close that rejects (ok false) is logged and nothing else
closePage(r, ok) ==
    IF r.page \in r.held
    THEN [r EXCEPT !.held = @ \ {r.page}, !.closes = @ + 1,
                   !.closeFailures = IF ok THEN @ ELSE @ + 1]
    ELSE r

\* The finally block, and what follows it
FinallyCloses(ok) ==
    /\ run.pc = "closing"
    /\ (ok \/ run.page \in run.held)
    /\ run' = afterFinally(closePage(run, ok))
    /\ UNCHANGED outsideRetry

NextRetry ==
    \/ \E s \in Sources :
         \E m \in NoAttemptRetries \cup (1..MaxRetriesTried) : Call(s, m)
    \/ BrowserReady
    \/ PageAcquired
    \/ OperationStarts
    \/ OperationReturns
    \/ \E stage \in Stages : \E jitter \in Jitters : Throws(stage, jitter)
    \/ BackoffDone
    \/ \E ok \in BOOLEAN : FinallyCloses(ok)

SpecRetry == Init /\ [][NextRetry]_vars

----------------------------------------------------------------------------
(* process.on("SIGINT") *)

\* The process runs: process.exit(0) has not been called
Alive == sigint # "exited"

\* The request and the pages of the specification of the shutdown
ShutdownRequests == {Request(JsString(Str_mug), <<>>, <<>>)}

\* SIGINT arrives: the handler closes the browser browserPool refers to, or
\* exits at once when there is none
Sigint ==
    /\ sigint = "none"
    /\ IF browserPool # 0
       THEN /\ sigint' = "closing"
            /\ closing' = browserPool
            /\ UNCHANGED closedBrowsers
       ELSE /\ sigint' = "exited"
            /\ UNCHANGED <<closing, closedBrowsers>>
    /\ UNCHANGED outsideShutdown

\* browserPool.close() resolves; process.exit(0)
SigintExits ==
    /\ sigint = "closing"
    /\ closedBrowsers' = closedBrowsers \cup {closing}
    /\ sigint' = "exited"
    /\ UNCHANGED <<closing, outsideShutdown>>

NextShutdown ==
    \/ Alive /\ \E r \in ShutdownRequests : ReceiveRequest(r, MaxRequests)
    \/ Alive /\ \E s \in Sources : Launched(s)
    \/ Alive /\ \E s \in Sources : NewPage(s)
    \/ Alive /\ \E s \in Sources : ScrapeReturns(s, CachePages(s))
    \/ Alive /\ \E s \in Sources : AttemptThrows(s)
    \/ Alive /\ \E s \in Sources : BackoffElapsed(s)
    \/ Alive /\ \E s \in Sources : Finally(s)
    \/ Alive /\ Respond
    \/ Alive /\ Timeout
    \/ Sigint
    \/ SigintExits

SpecShutdown == Init /\ [][NextShutdown]_vars

----------------------------------------------------------------------------
(* validateScrapingParams, called by itself *)

\* The search terms the validator is called with
SearchInputs ==
    { JsString(Str_mug),
      JsString(<<" ", "M", "u", "g", " ">>),
      JsString(<<"r", "e", "d", "-", "m", "u", "g", " ", "2">>),
      JsString(<<"m", "u", "g", "!", "?">>),
      JsString(<<"a", "_", "b">>),
      JsString(<<"!", "!", "!">>),
      JsString(<<"@", " ", "@">>),
      JsString(<<"!", " ", "m", "u", "g">>),
      JsString(Repeat("a", MaxSearchLength)),
      JsString(Repeat("a", MaxSearchLength + 1)),
      JsString(<<>>),
      JsString(<<" ", " ">>),
      JsNumber(7) }

\* The price ceilings the validator is called with
HighPriceInputs ==
    { <<>>,
      <<"2", "0", "0", "0">>,
      <<" ", "2", "0", "0", "0">>,
      <<"1", "9", ".", "9", "9", "9">>,
      <<"0">>,
      <<"-", "5">>,
      <<"a", "b", "c">>,
      <<"1", "2", "a", "b", "c">>,
      <<"1", "0", "0", "0", "0", "0", "0">>,
      <<"1", "0", "0", "0", "0", "0", "1">>,
      <<" ">> }

\* The categories the validator is called with
CategoryInputs ==
    { <<>>, <<"t", "o", "y", "s", " ">>, Repeat("c", MaxCategoryLength + 1),
      Repeat("c", MaxCategoryLength - 1) \o <<" ", "c">> }

\* validateScrapingParams(search, highprice, category) is called
Validate(search, highprice, category) ==
    /\ vcall' = [called |-> TRUE, search |-> search, highprice |-> highprice,
                 category |-> category,
                 result |-> validateScrapingParams(search, highprice, category)]
    /\ UNCHANGED outsideValidator

NextValidator ==
    \E search \in SearchInputs : \E highprice \in HighPriceInputs :
        \E category \in CategoryInputs : Validate(search, highprice, category)

SpecValidator == Init /\ [][NextValidator]_vars

----------------------------------------------------------------------------
(* calculateRelevanceScore, called by itself *)

\* The arguments the scorer is called with: the title of a candidate, the
\* sanitized search term (a term keeps the whitespace inside it) and the
\* parsed price of the candidate, which is above 0
ScoreInputs ==
    [title  : { <<"R","e","d"," ","M","u","g">>, <<"M","U","G">>,
                <<"A"," ","m","u","g">>, <<"J","a","r">> },
     search : { <<"m","u","g">>, <<"M","u","g">>, <<"c","u","p">>,
                <<"r","e","d"," ","m","u","g">>,
                <<"r","e","d"," "," ","m","u","g">>,
                <<"r","e","d","\t","m","u","g">> },
     price  : { Num(1), Num(1000 * Milli), Num(1299 * Milli), Num(3500 * Milli),
                Num(5000 * Milli), Inf(1) }]

\* calculateRelevanceScore(title, search, price) is called
Score(in) ==
    /\ scall' = [called |-> TRUE, title |-> in.title, search |-> in.search,
                 price |-> in.price,
                 result |-> calculateRelevanceScore(in.title, in.search, in.price)]
    /\ UNCHANGED outsideScorer

NextScorer == \E in \in ScoreInputs : Score(in)

SpecScorer == Init /\ [][NextScorer]_vars

----------------------------------------------------------------------------
(* Properties *)

TimeoutMessage == "Request timeout - try a simpler search"

ExhaustedMessage == "Failed to scrape after attempts"

\* The request was answered after both sources settled
Answered == phase = "responded" /\ settledAtEnd = Sources

\* The request was answered at the deadline, a started scrape still pending
TimedOut ==
    /\ phase = "responded"
    /\ settledAtEnd # Sources
    /\ \E s \in Sources : task[s].pc # "idle"

Count(x, seq) == Cardinality({i \in 1..Len(seq) : seq[i] = x})

\* The two sequences hold the same elements, each as often
SameElements(a, b) ==
    /\ Len(a) = Len(b)
    /\ \A x \in Range(a) \cup Range(b) : Count(x, a) = Count(x, b)

\* C1: when one source's scrape rejects after its retries and the other
\* fulfils with products, both before the deadline, the response is a
\* success that holds the fulfilled source's products, with the failed
\* source's flag false and the fulfilled source's flag true.
C1_PartialFailureIsolation ==
    \A a, b \in Sources :
        ( /\ Answered
          /\ a # b
          /\ task[a].pc = "rejected" /\ task[a].error = ExhaustedMessage
          /\ task[b].pc = "fulfilled" /\ Len(task[b].value) > 0 )
        => /\ response.status = 200
           /\ response.success
           /\ SameElements(response.products, task[b].value)
           /\ ~response.sources[a]
           /\ response.sources[b]

C1_Witness ==
    /\ Answered
    /\ response.status = 200
    /\ task["amazon"].pc = "rejected" /\ task["amazon"].error = ExhaustedMessage
    /\ task["myntra"].pc = "fulfilled" /\ Len(task["myntra"].value) > 1

C3_EmptyIsSuccess ==
    ( /\ Answered
      /\ \A s \in Sources : task[s].pc = "fulfilled" /\ task[s].value = <<>> )
    => /\ response.status = 200
       /\ response.success
       /\ response.products = <<>>
       /\ response.total = 0
       /\ \A s \in Sources : response.sources[s]

\* C4: a request whose parameters the validator rejects ends in a
\* client-error (4xx) response, never in a success and never in a 5xx.
C4_RejectedInputIsClientError ==
    ( /\ phase = "responded"
      /\ ~validateScrapingParams(req.search, req.highprice, req.category).ok )
    => response.status \in 400..499

InOrder(a, b) ==
    \/ NumGT(a.score, b.score)
    \/ a.score = b.score /\ ~NumGT(a.price, b.price)

C7_NoDuplicateTitles ==
    response.status = 200 =>
        \A i, j \in 1..Len(response.products) :
            ( /\ i # j
              /\ response.products[i].source = response.products[j].source )
            => ToLowerCase(response.products[i].title)
                 # ToLowerCase(response.products[j].title)

\* C8: every product of a response has a non-empty title and a price that
\* is a finite number and not negative.
C8_ProductsWellFormed ==
    \A i \in 1..Len(response.products) :
        /\ response.products[i].title # <<>>
        /\ IsFinite(response.products[i].price)
        /\ response.products[i].price.v >= 0

\* The scraper of source s looked its key up in the cache in this step
Reads(s) ==
    /\ phase' = "racing" /\ nreq' = nreq + 1
    /\ task'[s].val.ok

\* C9: a lookup of key K before the TTL has elapsed since the last store
\* under K returns the stored sequence; a lookup after the TTL has elapsed,
\* or of a key never stored, is a miss.
C9_CacheRoundTrip ==
    [][ \A s \in Sources :
          Reads(s) =>
            LET key == task'[s].key
            IN /\ (key \in DOMAIN lastSet /\ now < lastSet[key].at + cacheTTL)
                    => task'[s].hit /\ task'[s].pc = "fulfilled"
                       /\ task'[s].value = lastSet[key].v
               /\ (key \notin DOMAIN lastSet \/ now > lastSet[key].at + cacheTTL)
                    => ~task'[s].hit /\ task'[s].pc # "fulfilled" ]_vars

C9_Witness ==
    \E s \in Sources :
        /\ task[s].hit
        /\ Len(task[s].value) > 1
        /\ task[s].key \in DOMAIN lastSet
        /\ task[s].value = lastSet[task[s].key].v
        /\ lastSet[task[s].key].at < now

\* C10: two requests for the same source that the validator normalizes to
\* the same term, price ceiling and category have the same cache key.
C10_SameKeyForSameQuery ==
    \A s \in Sources : \A key \in DOMAIN lastSet :
        ( /\ task[s].val.ok
          /\ lastSet[key].source = s
          /\ lastSet[key].val = task[s].val )
        => task[s].key = key

\* C11: every entry of the result cache holds a non-empty product list, and
\* an entry is created or replaced only by a scrape that returns, with the
\* non-empty list it returns; an empty result and a failed scrape leave the
\* cache as it is.
C11_CacheHoldsOnlyResults ==
    [][ \A key \in DOMAIN searchCache' :
          /\ Len(searchCache'[key].v) > 0
          /\ (key \notin DOMAIN searchCache \/ searchCache[key] # searchCache'[key])
               => \E s \in Sources :
                    /\ task[s].pc = "close" /\ task[s].next = "return"
                    /\ task'[s].pc = "fulfilled"
                    /\ task[s].key = key
                    /\ searchCache'[key].v = task'[s].value ]_vars

C11_Witness ==
    \E a, b \in Sources :
        /\ task[a].pc = "fulfilled" /\ ~task[a].hit
        /\ task[a].key \in DOMAIN searchCache
        /\ task[b].pc \in {"fulfilled", "rejected"}
        /\ task[b].value = <<>>
        /\ task[b].key # <<>>
        /\ task[b].key \notin DOMAIN searchCache

\* The operations that hold a slot of the limiter
Executing == {i \in Operations : op[i].st \in {"running", "settled"}}

\* The limiter of executeWithRateLimit keeps the operations executing within
\* MAX_CONCURRENT_SCRAPES, and activeScrapes counts them
LimiterWithinMaximum ==
    /\ activeScrapes = Cardinality(Executing)
    /\ activeScrapes <= MAX_CONCURRENT_SCRAPES

\* C13: the limiter starts the operations in the order of their arrival: the
\* k-th operation to start is the k-th operation submitted, so an operation
\* never starts before one submitted earlier.
C13_AdmittedInArrivalOrder ==
    \A k \in 1..Len(admitted) : admitted[k] = k

C13_Witness ==
    /\ \E i \in Operations : op[i].st = "released"
    /\ Len(admitted) > MAX_CONCURRENT_SCRAPES + 1
    /\ Len(scrapingQueue) > 0

\* C14: every operation submitted to the limiter is admitted in the end and
\* its promise settles with the outcome of the operation itself, whether
\* the operations before it fulfilled or rejected.
C14_EverySubmittedSettles ==
    \A i \in Operations :
        (op[i].st # "new") ~>
            ( /\ \E k \in 1..Len(admitted) : admitted[k] = i
              /\ op[i].promise # "pending"
              /\ op[i].promise = op[i].outcome )

C14_Witness ==
    /\ op[1].promise = "rejected"
    /\ op[2].promise = "rejected"
    /\ \E i \in Operations :
         i > MAX_CONCURRENT_SCRAPES /\ op[i].promise = "fulfilled"

\* The scrapes of the requests in service that hold a page
HoldingPage ==
    {rs \in ConcurrentRequests \X Sources : inflight[rs[1]][rs[2]] = "page"}

\* C12: across the requests served at the same time, the scrapes that hold
\* a page are at most the fixed maximum of the limiter.
C12_ExecutingWithinMaximum == Cardinality(HoldingPage) <= MAX_CONCURRENT_SCRAPES

\* C15: when the operation throws on every attempt, safeScrape runs it
\* exactly maxRetries times, acquires a page and closes a page exactly
\* maxRetries times, and rejects with an error that carries the source,
\* maxRetries as the number of attempts, and the last error.
C15_RetryExhaustion ==
    ( /\ run.pc = "rejected"
      /\ \A k \in 1..Len(run.stages) : run.stages[k] = "operation" )
    => /\ Len(run.stages) = run.maxRetries
       /\ run.runs = run.maxRetries
       /\ run.pages = run.maxRetries
       /\ run.closes = run.maxRetries
       /\ run.result = [kind |-> "error", source |-> run.source,
                        attempts |-> run.maxRetries, message |-> "operation"]

C15_Witness ==
    /\ run.pc = "rejected"
    /\ run.maxRetries = 2
    /\ run.stages = <<"operation", "operation">>
    /\ run.runs = 2 /\ run.pages = 2 /\ run.closes = 2

C17_SingleBrowser ==
    /\ launches <= 1
    /\ \A a, b \in Sources :
         (task[a].page /\ task[b].page) => task[a].browser = task[b].browser

\* C18: when the SIGINT handler has run, every browser that was launched
\* has been closed.
C18_ShutdownClosesEveryBrowser ==
    sigint = "exited" => closedBrowsers = 1..launches

\* The characters of the safe set: letters, digits, the space and the hyphen
SafeSet == Range(UpperChars) \cup Range(LowerChars) \cup Range(DigitChars) \cup {" ", "-"}

\* C19: every term the validator accepts comes back non-empty, not blank,
\* of at most 100 characters, all of them of the safe set.
C19_TermNormalized ==
    (vcall.called /\ vcall.result.ok)
    => /\ Trim(vcall.result.sanitizedSearch) # <<>>
       /\ Len(vcall.result.sanitizedSearch) <= MaxSearchLength
       /\ \A k \in 1..Len(vcall.result.sanitizedSearch) :
            vcall.result.sanitizedSearch[k] \in SafeSet

\* C20: a price ceiling the validator returns is the numeral of a finite
\* number that is not negative and not above the maximum.
C20_PriceCeilingNumeric ==
    (vcall.called /\ vcall.result.ok /\ vcall.result.sanitizedHighPrice # <<>>)
    => /\ IsFinite(StrToNumber(vcall.result.sanitizedHighPrice))
       /\ ~NumLT(StrToNumber(vcall.result.sanitizedHighPrice), Num(0))
       /\ ~NumGT(StrToNumber(vcall.result.sanitizedHighPrice),
                 Num(MaxHighPrice * Milli))

C22_OrderIndependentOfCompletion ==
    Answered =>
        response.products =
            Substring0(SortBy(contribution(task["amazon"])
                              \o contribution(task["myntra"]), TRUE), MaxReturned)

\* Myntra settled first, and the response holds a product of each source
\* with the same score and price, Amazon's before Myntra's
C22_Witness ==
    /\ Answered
    /\ task["myntra"].order = 1 /\ task["amazon"].order = 2
    /\ \E i, j \in 1..Len(response.products) :
         /\ i < j
         /\ response.products[i].source = "amazon"
         /\ response.products[j].source = "myntra"
         /\ response.products[i].score = response.products[j].score
         /\ response.products[i].price = response.products[j].price

\* C23: no browser is closed, or being closed, while a scrape in flight
\* holds a page of it or is about to acquire one.
C23_BrowserNotClosedInFlight ==
    \A s \in Sources :
        ( /\ task[s].pc \in {"newpage", "page", "backoff", "close"}
          /\ task[s].browser # 0 )
        => /\ task[s].browser \notin closedBrowsers
           /\ sigint = "closing" => task[s].browser # closing

\* The attempt whose failure started the last backoff of the call
lastFailed ==
    IF run.pc = "backoff" \/ (run.pc = "closing" /\ run.next = "retry")
    THEN run.attempt
    ELSE run.attempt - 1

candidates(s) ==
    IF s = "amazon"
    THEN CollectAmazon(Substring0(task[s].rendered, MaxAmazonElements),
                       task[s].val.sanitizedSearch)
    ELSE CollectMyntra(Substring0(task[s].rendered, MaxMyntraElements),
                       task[s].val.sanitizedSearch)

\* C25: every product a scrape returns is the product of the first candidate,
\* in page order, that has its normalized title.
C25_FirstOccurrenceKept ==
    \A s \in Sources :
        (task[s].pc \in {"close", "fulfilled"} /\ ~task[s].hit)
        => \A i \in 1..Len(task[s].value) :
             \E j \in 1..Len(candidates(s)) :
                /\ candidates(s)[j] = task[s].value[i]
                /\ \A k \in 1..(j - 1) :
                     ToLowerCase(candidates(s)[k].title)
                       # ToLowerCase(task[s].value[i].title)

\* The price text the extractor of source s reads from a candidate
priceText(s, el) ==
    IF s = "amazon" THEN el.priceText
    ELSE IF Trim(el.discountedPrice) # <<>> THEN Trim(el.discountedPrice)
    ELSE Trim(el.dataProductPrice)

\* The products the extractor of source s makes of a candidate
elementProducts(s, el) ==
    IF s = "amazon" THEN amazonElement(el, task[s].val.sanitizedSearch)
    ELSE myntraElement(el, task[s].val.sanitizedSearch)

\* C26: in the extractor of either source, a titled candidate whose price
\* text is the currency sign followed by 1,299.00 yields a product of price
\* 1299, which the scrape returns, and a candidate whose price text is the
\* currency sign followed by 0 yields no product.
C26_PriceTextNormalized ==
    \A s \in Sources :
        (task[s].pc \in {"close", "fulfilled"} /\ ~task[s].hit)
        => \A k \in 1..Len(task[s].rendered) :
             LET el == task[s].rendered[k]
             IN /\ priceText(s, el) = <<Rupee, "1", ",", "2", "9", "9", ".", "0", "0">>
                     => /\ Len(elementProducts(s, el)) = 1
                        /\ elementProducts(s, el)[1].price = Num(1299 * Milli)
                        /\ elementProducts(s, el)[1] \in Range(task[s].value)
                /\ priceText(s, el) = <<Rupee, "0">>
                     => elementProducts(s, el) = <<>>

\* The whitespace-separated terms of a query
Words(s) ==
    SelectSeq(SplitSpace([i \in 1..Len(s) |-> IF IsSpace(s[i]) THEN " " ELSE s[i]]),
              LAMBDA w : w # <<>>)

\* The price term of the score: 50 - |price - 1000| / 50, at least 0
PriceTerm(price) ==
    IF ~IsFinite(price) THEN 0
    ELSE IF price.v >= 1000 * Milli
    THEN (IF price.v - 1000 * Milli >= 50 * ScoreUnit THEN 0
          ELSE 50 * ScoreUnit - (price.v - 1000 * Milli))
    ELSE 50 * ScoreUnit - (1000 * Milli - price.v)

\* C27: the score is 10 for every whitespace-separated term of the query
\* that occurs in the title, letter case aside, plus 20 when the whole query
\* occurs in the title, plus the price term; it is not negative and the
\* price term is at most 50.
C27_ScoreAsSpecified ==
    scall.called
    => /\ scall.result =
            Num(( 10 * Cardinality({k \in 1..Len(Words(scall.search)) :
                         Includes(ToLowerCase(scall.title),
                                  ToLowerCase(Words(scall.search)[k]))})
                  + (IF Includes(ToLowerCase(scall.title), ToLowerCase(scall.search))
                     THEN 20 ELSE 0) ) * ScoreUnit
                + PriceTerm(scall.price))
       /\ scall.result.v >= 0
       /\ PriceTerm(scall.price) <= 50 * ScoreUnit

\* C28: a scraper that finds a live entry under its key returns the entry's
\* list at once: it starts no attempt, launches no browser, acquires no page
\* and leaves the entry as it is; an attempt is started only by a scraper
\* that found no live entry.
C28_CacheHitBypassesExecutor ==
    [][ \A s \in Sources :
          /\ Reads(s) =>
                /\ task'[s].hit = cacheLive(searchCache, task'[s].key)
                /\ task'[s].hit =>
                      /\ task'[s].value = searchCache[task'[s].key].v
                      /\ launches' = launches /\ browserPool' = browserPool
                /\ ~task'[s].hit => task'[s].pc \in {"launching", "newpage"}
          /\ task'[s].hit =>
                /\ task'[s].pc = "fulfilled"
                /\ task'[s].attempt = 0 /\ task'[s].browser = 0 /\ ~task'[s].page
          /\ (task[s].hit /\ nreq' = nreq) =>
                /\ task'[s] = task[s]
                /\ task[s].key \in DOMAIN searchCache'
                      => searchCache'[task[s].key] = searchCache[task[s].key] ]_vars

\* Amazon's scraper was served from the cache while Myntra's, which found
\* nothing, holds a page
C28_Witness ==
    /\ task["amazon"].hit /\ Len(task["amazon"].value) > 0
    /\ ~task["myntra"].hit /\ task["myntra"].page

\* C29: a scraper's cache key is the key of a stored entry only when the
\* entry was stored by the scraper of the same source for a request the
\* validator gave the same term (letter case aside), the same price ceiling
\* and the same category.
C29_CacheKeyInjective ==
    \A s \in Sources : \A key \in DOMAIN lastSet :
        (task[s].val.ok /\ task[s].key = key)
        => /\ lastSet[key].source = s
           /\ ToLowerCase(lastSet[key].val.sanitizedSearch)
                = ToLowerCase(task[s].val.sanitizedSearch)
           /\ lastSet[key].val.sanitizedHighPrice = task[s].val.sanitizedHighPrice
           /\ lastSet[key].val.sanitizedCategory = task[s].val.sanitizedCategory

\* C30: a request is sent one response and no more: none while the race is
\* on, one from the moment the handler has answered, on each of its paths,
\* and still one after the promise that lost the race has settled; and no
\* rejection is left without a reaction.
C30_ExactlyOneResponse ==
    /\ race.sent <= 1
    /\ phase = "racing" => race.sent = 0
    /\ phase = "responded" => race.sent = 1
    /\ race.unhandled = 0

\* The deadline fired first and the scrapes it abandoned settled later
C30_Witness ==
    /\ TimedOut
    /\ response.status = 500
    /\ race.timer = "fired" /\ race.delivered
    /\ race.sent = 1

\* C33: while safeScrape waits out the backoff delay between two attempts it
\* holds no open page: the page of the failed attempt was closed before the
\* wait began.
C33_NoPageDuringBackoff == run.pc = "backoff" => run.held = {}

revalidated ==
    validateScrapingParams(JsString(vcall.result.sanitizedSearch),
                           vcall.result.sanitizedHighPrice,
                           vcall.result.sanitizedCategory)

\* C35: the validator's normalization is idempotent: validating the term,
\* the price ceiling and the category it returned for an accepted request
\* succeeds and returns them unchanged, and the term it returned has no
\* whitespace at either end.
C35_ValidatorIdempotent ==
    (vcall.called /\ vcall.result.ok)
    => /\ revalidated = vcall.result
       /\ Trim(vcall.result.sanitizedSearch) = vcall.result.sanitizedSearch

\* C32: in the limiter, activeScrapes never goes below 0, and whenever an
\* operation waits in the queue activeScrapes equals the maximum: no
\* operation waits while a slot is free.
C32_NoWaitingWhileSlotFree ==
    /\ activeScrapes >= 0
    /\ Len(scrapingQueue) > 0 => activeScrapes = MAX_CONCURRENT_SCRAPES
    /\ \A i \in Operations : op[i].st = "queued" <=> i \in Range(scrapingQueue)

\* An operation has given its slot to the head of the queue, and another
\* operation still waits
C32_Witness ==
    /\ Len(scrapingQueue) > 0
    /\ activeScrapes = MAX_CONCURRENT_SCRAPES
    /\ \E i \in Operations : op[i].st = "released"
    /\ \E i \in Operations :
         i > MAX_CONCURRENT_SCRAPES /\ op[i].st \in {"running", "settled"}

\* The scrapes of the request that hold an open page
OpenPages == {s \in Sources : task[s].page}

\* C31: a scrape abandoned because the deadline fired keeps running and
\* releases its resources: after a request was answered at the deadline,
\* its scrapes settle in the end and every page they acquired is closed, so
\* the number of open pages returns to zero.
C31_AbandonedScrapesReleasePages ==
    TimedOut ~> (Quiescent /\ OpenPages = {})

\* A scrape still pending when the deadline fired has since read a page,
\* returned its products and closed the page, after the response was sent
C31_Witness ==
    /\ TimedOut
    /\ race.timer = "fired" /\ race.delivered
    /\ OpenPages = {}
    /\ \E s \in Sources \ settledAtEnd :
         task[s].pc = "fulfilled" /\ Len(task[s].value) > 0

====
